---- MODULE Spec2Model ----
(***************************************************************************)
(* Model of server.js: the business-card text parser parseCardText, the    *)
(* lazily built OCR client (getVisionClient) behind                        *)
(* POST /api/extract-business-card, and the webhook relay                  *)
(* POST /api/submit-inquiry.                                               *)
(*                                                                         *)
(* Strings are sequences of one-character strings, so that split, trim,    *)
(* toLowerCase and the regular expressions are computed character by       *)
(* character.  A JavaScript value that may be absent is a tagged record.   *)
(***************************************************************************)
EXTENDS Integers, Sequences, FiniteSets, TLC

VARIABLES
    text, ppc, result,                                   \* parseCardText call
    visionClient, keyFile, envB64, nextId, callLog,      \* OCR client cache
    epc, eHasFile, eCalls, eClient, eResp,               \* extract requests
    envUrl, envSecret,                                   \* process.env
    spc, sPayload, sFetch, sCalls, sResp                 \* submit requests

parseVars   == <<text, ppc, result>>
extractVars == <<visionClient, keyFile, envB64, nextId, callLog,
                 epc, eHasFile, eCalls, eClient, eResp>>
submitVars  == <<envUrl, envSecret, spc, sPayload, sFetch, sCalls, sResp>>
vars        == <<parseVars, extractVars, submitVars>>

-----------------------------------------------------------------------------
(* Bounds *)

MaxLines == 3        \* lines of OCR text per parseCardText input
NumExtract == 4      \* requests to /api/extract-business-card
NumSubmit == 3       \* requests to /api/submit-inquiry

-----------------------------------------------------------------------------
(* JavaScript values *)

Undefined == [tag |-> "undefined"]
Null      == [tag |-> "null"]
Str(s)    == [tag |-> "string", chars |-> s]

\* ToBoolean(v) is false: undefined, null and the empty string
FalsyEmptyOnly(v) == v.tag = "string" /\ v.chars = <<>>
Falsy(v) == v.tag \in {"undefined", "null"} \/ (v.tag = "string" /\ v.chars = <<>>)

-----------------------------------------------------------------------------
(* Characters and string methods *)

Lowers == <<"a", "b", "c", "d", "e", "f", "g", "h", "i", "j", "k", "l", "m",
            "n", "o", "p", "q", "r", "s", "t", "u", "v", "w", "x", "y", "z",
            "ä", "ö", "ü">>
Uppers == <<"A", "B", "C", "D", "E", "F", "G", "H", "I", "J", "K", "L", "M",
            "N", "O", "P", "Q", "R", "S", "T", "U", "V", "W", "X", "Y", "Z",
            "Ä", "Ö", "Ü">>
Digits == {"0", "1", "2", "3", "4", "5", "6", "7", "8", "9"}

\* \s of a regular expression, and what String.prototype.trim strips
WhiteSpace == {" ", "\t", "\n", "\r", "\f"}

\* the lower case of each upper-case letter, and the reverse
LowerOf == [c \in {Uppers[i] : i \in 1..Len(Uppers)} |->
               Lowers[CHOOSE i \in 1..Len(Uppers) : Uppers[i] = c]]
UpperOf == [c \in {Lowers[i] : i \in 1..Len(Lowers)} |->
               Uppers[CHOOSE i \in 1..Len(Lowers) : Lowers[i] = c]]

\* String.prototype.toLowerCase, one character
toLowerChar(c) == IF c \in DOMAIN LowerOf THEN LowerOf[c] ELSE c

\* a lower-casing that leaves the string as it is
toLowerCaseIdentity(s) == s

toLowerCase(s) == [i \in 1..Len(s) |-> toLowerChar(s[i])]

\* Canonicalize of an /i regular expression without the u flag: the upper
\* case of the character when that is one character (it is not for "ß")
Canonicalize(c) == IF c \in DOMAIN UpperOf THEN UpperOf[c] ELSE c

\* String.prototype.includes
includes(s, sub) ==
    \E i \in 0..(Len(s) - Len(sub)) : SubSeq(s, i + 1, i + Len(sub)) = sub

\* a literal pattern of an /i regular expression occurs at offset i of s
MatchesAtI(s, pat, i) ==
    /\ i + Len(pat) <= Len(s)
    /\ \A k \in 1..Len(pat) : Canonicalize(s[i + k]) = Canonicalize(pat[k])

\* /pat/i.test(s) for a literal pattern
TestLiteralI(s, pat) == \E i \in 0..(Len(s) - Len(pat)) : MatchesAtI(s, pat, i)

\* String.prototype.trim
trim(s) ==
    IF \A i \in 1..Len(s) : s[i] \in WhiteSpace THEN <<>>
    ELSE LET a == CHOOSE i \in 1..Len(s) :
                      s[i] \notin WhiteSpace /\ \A j \in 1..(i - 1) : s[j] \in WhiteSpace
             b == CHOOSE i \in 1..Len(s) :
                      s[i] \notin WhiteSpace /\ \A j \in (i + 1)..Len(s) : s[j] \in WhiteSpace
         IN  SubSeq(s, a, b)

\* text.split("\n")
RECURSIVE splitNewline(_)
splitNewline(s) ==
    IF \A i \in 1..Len(s) : s[i] # "\n" THEN <<s>>
    ELSE LET i == CHOOSE i \in 1..Len(s) :
                      s[i] = "\n" /\ \A j \in 1..(i - 1) : s[j] # "\n"
         IN  <<SubSeq(s, 1, i - 1)>> \o splitNewline(SubSeq(s, i + 1, Len(s)))

\* nameLine.split(/\s+/): cut at every maximal run of white space
RECURSIVE splitWhiteSpace(_)
splitWhiteSpace(s) ==
    IF \A i \in 1..Len(s) : s[i] \notin WhiteSpace THEN <<s>>
    ELSE LET i == CHOOSE i \in 1..Len(s) :
                      s[i] \in WhiteSpace /\ \A j \in 1..(i - 1) : s[j] \notin WhiteSpace
             j == CHOOSE j \in i..Len(s) :
                      /\ \A k \in i..j : s[k] \in WhiteSpace
                      /\ (j = Len(s) \/ s[j + 1] \notin WhiteSpace)
         IN  <<SubSeq(s, 1, i - 1)>> \o splitWhiteSpace(SubSeq(s, j + 1, Len(s)))

\* .filter(Boolean) on an array of strings
filterBoolean(a) == SelectSeq(a, LAMBDA l : l # <<>>)

\* Array.prototype.join(" ")
RECURSIVE joinSpace(_)
joinSpace(a) ==
    IF a = <<>> THEN <<>>
    ELSE IF Len(a) = 1 THEN a[1]
    ELSE a[1] \o <<" ">> \o joinSpace(Tail(a))

\* a[i] || "" for an array of non-empty strings (a[i] is undefined past the end)
elementOrEmpty(a, i) == IF i >= 1 /\ i <= Len(a) THEN a[i] ELSE <<>>

\* a.find(test) || "" for an array of non-empty strings
findOrEmpty(a, test(_)) ==
    IF \E i \in 1..Len(a) : test(a[i])
    THEN a[CHOOSE i \in 1..Len(a) : test(a[i]) /\ \A j \in 1..(i - 1) : ~test(a[j])]
    ELSE <<>>

-----------------------------------------------------------------------------
(* The regular expressions of parseCardText *)

\* /\S+@\S+\.\S+/.test(l)
EmailRe(l) ==
    \E p \in 2..Len(l) : \E q \in (p + 2)..(Len(l) - 1) :
        /\ l[p - 1] \notin WhiteSpace
        /\ l[p] = "@"
        /\ \A i \in (p + 1)..(q - 1) : l[i] \notin WhiteSpace
        /\ l[q] = "."
        /\ l[q + 1] \notin WhiteSpace

\* the class [\d\s\-()]
PhoneChars == Digits \cup WhiteSpace \cup {"-", "(", ")"}

\* /(\+?\d[\d\s\-()]{6,})/.test(l)
PhoneRe(l) ==
    \E p \in 1..(Len(l) - 6) :
        /\ l[p] \in Digits
        /\ \A i \in (p + 1)..(p + 6) : l[i] \in PhoneChars

WWW   == <<"w", "w", "w", ".">>
HTTP  == <<"h", "t", "t", "p", ":", "/", "/">>
HTTPS == <<"h", "t", "t", "p", "s", ":", "/", "/">>

\* the same pattern with the scheme anchored at the start of the line
WebsiteReAnchored(l) ==
    \/ TestLiteralI(l, WWW)
    \/ MatchesAtI(l, HTTP, 0)
    \/ MatchesAtI(l, HTTPS, 0)

\* /(www\.|https?:\/\/)/i.test(l)
WebsiteRe(l) ==
    \/ TestLiteralI(l, WWW)
    \/ TestLiteralI(l, HTTP)
    \/ TestLiteralI(l, HTTPS)

COMPANY_BLACKLIST == <<
    <<"g", "e", "s", "c", "h", "ä", "f", "t", "s", "f", "ü", "h", "r", "e", "r">>,
    <<"c", "e", "o">>,
    <<"m", "a", "n", "a", "g", "e", "r">>,
    <<"d", "i", "r", "e", "c", "t", "o", "r">>,
    <<"f", "o", "u", "n", "d", "e", "r">>,
    <<"o", "w", "n", "e", "r">>,
    <<"s", "a", "l", "e", "s">>,
    <<"m", "a", "r", "k", "e", "t", "i", "n", "g">> >>

\* the alternatives of the role-title pattern of filteredForName
RoleTitleTerms == <<
    <<"g", "e", "s", "c", "h", "ä", "f", "t", "s", "f", "ü", "h", "r", "e", "r">>,
    <<"c", "e", "o">>,
    <<"m", "a", "n", "a", "g", "e", "r">>,
    <<"d", "i", "r", "e", "c", "t", "o", "r">>,
    <<"f", "o", "u", "n", "d", "e", "r">>,
    <<"o", "w", "n", "e", "r">>,
    <<"s", "a", "l", "e", "s">>,
    <<"m", "a", "r", "k", "e", "t", "i", "n", "g">> >>

\* the alternatives of the address pattern of the company search
AddressTerms == <<
    <<"s", "t", "r", "a", "ß", "e">>,
    <<"s", "t", "r", ".">>,
    <<"p", "l", "a", "t", "z">>,
    <<"r", "o", "a", "d">>,
    <<"s", "t", "r", "e", "e", "t">>,
    <<"a", "v", "e">>,
    <<"b", "l", "v", "d">>,
    <<"m", "ü", "n", "s", "t", "e", "r">>,
    <<"b", "e", "r", "l", "i", "n">>,
    <<"d", "e", "u", "t", "s", "c", "h", "l", "a", "n", "d">>,
    <<"g", "e", "r", "m", "a", "n", "y">> >>

\* /(geschäftsführer|ceo|manager|director|founder|owner|sales|marketing)/i.test(l)
RoleTitleRe(l) ==
    \E t \in 1..Len(RoleTitleTerms) : TestLiteralI(l, RoleTitleTerms[t])

\* /(straße|str\.|platz|road|street|ave|blvd|münster|berlin|deutschland|germany)/i.test(l)
AddressRe(l) ==
    \E t \in 1..Len(AddressTerms) : TestLiteralI(l, AddressTerms[t])

-----------------------------------------------------------------------------
(* parseCardText *)

Fields == {"firstName", "lastName", "company", "phone", "email", "website"}

\* the object literal {}
EmptyObject == [f \in {} |-> <<>>]

Return(v) == [kind |-> "return", value |-> v]
Throw     == [kind |-> "throw"]
Pending   == [kind |-> "pending"]

\* text.split("\n").map((l) => l.trim()).filter(Boolean)
lines(t) ==
    LET raw == splitNewline(t)
    IN  filterBoolean([i \in 1..Len(raw) |-> trim(raw[i])])

email(ls)   == findOrEmpty(ls, EmailRe)
phone(ls)   == findOrEmpty(ls, PhoneRe)
website(ls) == findOrEmpty(ls, WebsiteRe)

filteredForName(ls) ==
    LET f1 == SelectSeq(ls, LAMBDA l : ~EmailRe(l))
        f2 == SelectSeq(f1, LAMBDA l : ~WebsiteRe(l))
        f3 == SelectSeq(f2, LAMBDA l : ~PhoneRe(l))
    IN  SelectSeq(f3, LAMBDA l : ~RoleTitleRe(l))

nameLine(ls) == elementOrEmpty(filteredForName(ls), 1)

parts(ls) == filterBoolean(splitWhiteSpace(nameLine(ls)))

\* a last name of the second token alone
SecondTokenOnly(p) == p[2]

\* parts.slice(1).join(" ")
lastNameOfParts(p) == joinSpace(Tail(p))

\* a fallback that leaves lastName empty
FallbackEmpty(f) == <<>>

\* filteredForName[1] || ""
lastNameFallback(f) == elementOrEmpty(f, 2)

firstName(ls) ==
    IF Len(parts(ls)) >= 2 THEN parts(ls)[1]
    ELSE elementOrEmpty(filteredForName(ls), 1)

lastName(ls) ==
    IF Len(parts(ls)) >= 2 THEN lastNameOfParts(parts(ls))
    ELSE lastNameFallback(filteredForName(ls))

\* the callback of the company search
companyTest(l, fn) ==
    LET low == toLowerCase(l)
    IN  /\ l # <<>>
        /\ ~(fn # <<>> /\ includes(l, fn))
        /\ ~EmailRe(l)
        /\ ~WebsiteRe(l)
        /\ ~PhoneRe(l)
        /\ ~(\E b \in 1..Len(COMPANY_BLACKLIST) : includes(low, COMPANY_BLACKLIST[b]))
        /\ ~AddressRe(l)

company(ls, fn) == findOrEmpty(ls, LAMBDA l : companyTest(l, fn))

parseCardText(t) ==
    IF Falsy(t) THEN Return(EmptyObject)
    ELSE IF t.tag # "string" THEN Throw       \* text.split of a non-string
    ELSE LET ls == lines(t.chars)
             fn == firstName(ls)
         IN  Return([firstName |-> trim(fn),
                     lastName  |-> trim(lastName(ls)),
                     company   |-> trim(company(ls, fn)),
                     phone     |-> trim(phone(ls)),
                     email     |-> trim(email(ls)),
                     website   |-> trim(website(ls))])

-----------------------------------------------------------------------------
(* Inputs of parseCardText *)

JaneDoe   == <<"J", "a", "n", "e", " ", "D", "o", "e">>
CEO       == <<"C", "E", "O">>
Beispiel  == <<"B", "e", "i", "s", "p", "i", "e", "l", " ", "G", "m", "b", "H">>
Musterstr == <<"M", "u", "s", "t", "e", "r", "s", "t", "r", "a", "ß", "e", " ",
               "1", ",", " ", "B", "e", "r", "l", "i", "n">>
Acme      == <<"A", "c", "m", "e">>
JohnSmith == <<" ", "J", "o", "h", "n", " ", " ", "A", " ", "S", "m", "i", "t", "h", " ">>
MailLine  == <<"a", "@", "b", ".", "d", "e">>
PhoneLine == <<"+", "4", "9", " ", "3", "0", " ", "1", "2", "3", "4", "5", "6", "7">>
WwwLine   == <<"w", "w", "w", ".", "a", "c", "m", "e", ".", "d", "e">>
WebLine   == <<"W", "e", "b", ":", " ", "h", "t", "t", "p", "s", ":", "/", "/",
               "a", ".", "d", "e">>
AllThree  == <<"1", "2", "3", "4", "5", "6", "7", "@", "w", "w", "w", ".", "b",
               ".", "d", "e">>
BlankLine == <<" ", "\t">>

CardLines == <<JaneDoe, CEO, Beispiel, Musterstr, Acme, JohnSmith,
               MailLine, PhoneLine, WwwLine, WebLine, AllThree, BlankLine>>

RECURSIVE joinLines(_)
joinLines(a) ==
    IF a = <<>> THEN <<>>
    ELSE IF Len(a) = 1 THEN a[1]
    ELSE a[1] \o <<"\n">> \o joinLines(Tail(a))

\* the card of the fifth testable property of the specification
JaneCard == joinLines(<<JaneDoe, CEO, Beispiel, Musterstr>>)

CardTexts ==
    UNION { { joinLines([i \in 1..n |-> CardLines[c[i]]]) :
                c \in [1..n -> 1..Len(CardLines)] } : n \in 0..MaxLines }

\* what a caller passes: a string, or nothing
Inputs == {Undefined, Null, Str(JaneCard)} \cup { Str(t) : t \in CardTexts }

-----------------------------------------------------------------------------
(* Initial values of the three parts of the state *)

ParseIdle ==
    /\ text = Undefined
    /\ ppc = "idle"
    /\ result = Pending

-----------------------------------------------------------------------------
(* A call of parseCardText *)

ParseInit ==
    /\ text \in Inputs
    /\ ppc = "call"
    /\ result = Pending

Parse ==
    /\ ppc = "call"
    /\ result' = parseCardText(text)
    /\ ppc' = "done"
    /\ UNCHANGED <<text, extractVars, submitVars>>


ParseNext == Parse

-----------------------------------------------------------------------------
(* getVisionClient and POST /api/extract-business-card *)

ExtractReqs == 1..NumExtract

\* let visionClient = null
NoClient == 0

\* where a call of getVisionClient may throw: nowhere, in require(), in
\* fs.writeFileSync, or in new vision.ImageAnnotatorClient
Failures == {"none", "require", "write", "construct"}

\* what a call of getVisionClient does: whether it threw, the client it
\* returned, the new values of visionClient and of the key file, and whether
\* it constructed a client
GvcResult(threw, ret, cache, kf, built) ==
    [threw |-> threw, ret |-> ret, cache |-> cache, keyFile |-> kf, built |-> built]

\* the body of getVisionClient after the test of the cache
gvcBuild(cache, kf, b64, id, fail) ==
    IF fail = "require" THEN GvcResult(TRUE, NoClient, cache, kf, FALSE)
    ELSE IF b64
    THEN IF ~kf /\ fail = "write" THEN GvcResult(TRUE, NoClient, cache, kf, FALSE)
         ELSE IF fail = "construct" THEN GvcResult(TRUE, NoClient, cache, TRUE, FALSE)
         ELSE GvcResult(FALSE, id, id, TRUE, TRUE)
    ELSE IF fail = "construct" THEN GvcResult(TRUE, NoClient, cache, kf, FALSE)
         ELSE GvcResult(FALSE, id, id, kf, TRUE)

\* getVisionClient without the test of the cache
getVisionClientNoCache(cache, kf, b64, id, fail) == gvcBuild(cache, kf, b64, id, fail)

getVisionClient(cache, kf, b64, id, fail) ==
    IF cache # NoClient THEN GvcResult(FALSE, cache, cache, kf, FALSE)
    ELSE gvcBuild(cache, kf, b64, id, fail)

\* result?.fullTextAnnotation?.text of an OCR reply
OcrTexts == {Undefined, Str(Acme)}

\* v || ""
orEmpty(v) == IF Falsy(v) THEN Str(<<>>) ELSE v

ExtractIdle ==
    /\ visionClient = NoClient
    /\ keyFile = FALSE
    /\ envB64 = FALSE
    /\ nextId = 1
    /\ callLog = <<>>
    /\ epc = [r \in ExtractReqs |-> "new"]
    /\ eHasFile = [r \in ExtractReqs |-> FALSE]
    /\ eCalls = [r \in ExtractReqs |-> 0]
    /\ eClient = [r \in ExtractReqs |-> NoClient]
    /\ eResp = [r \in ExtractReqs |-> <<>>]

ExtractInit ==
    /\ visionClient = NoClient
    /\ keyFile \in BOOLEAN
    /\ envB64 \in BOOLEAN
    /\ nextId = 1
    /\ callLog = <<>>
    /\ epc = [r \in ExtractReqs |-> "new"]
    /\ eHasFile = [r \in ExtractReqs |-> FALSE]
    /\ eCalls = [r \in ExtractReqs |-> 0]
    /\ eClient = [r \in ExtractReqs |-> NoClient]
    /\ eResp = [r \in ExtractReqs |-> <<>>]

\* the handler up to its first await
ExtractStart(r) ==
    /\ epc[r] = "new"
    /\ \E file \in BOOLEAN : eHasFile' = [eHasFile EXCEPT ![r] = file]
    /\ IF ~eHasFile'[r]
       THEN /\ eResp' = [eResp EXCEPT ![r] = Append(@, [status |-> 400])]
            /\ epc' = [epc EXCEPT ![r] = "done"]
            /\ UNCHANGED <<visionClient, keyFile, nextId, callLog, eCalls, eClient>>
       ELSE \E fail \in Failures :
            LET g == getVisionClient(visionClient, keyFile, envB64, nextId, fail)
            IN  /\ visionClient' = g.cache
                /\ keyFile' = g.keyFile
                /\ nextId' = IF g.built THEN nextId + 1 ELSE nextId
                /\ eCalls' = [eCalls EXCEPT ![r] = @ + 1]
                /\ callLog' = Append(callLog,
                                     [before |-> visionClient, threw |-> g.threw,
                                      ret |-> g.ret, built |-> g.built, after |-> g.cache])
                /\ IF g.threw
                   THEN /\ eResp' = [eResp EXCEPT ![r] = Append(@, [status |-> 500])]
                        /\ epc' = [epc EXCEPT ![r] = "done"]
                        /\ UNCHANGED eClient
                   ELSE /\ eClient' = [eClient EXCEPT ![r] = g.ret]
                        /\ epc' = [epc EXCEPT ![r] = "awaitOCR"]
                        /\ UNCHANGED eResp
    /\ UNCHANGED <<envB64, parseVars, submitVars>>

\* client.textDetection settles: the rest of the handler
ExtractOcrSettle(r) ==
    /\ epc[r] = "awaitOCR"
    /\ \/ eResp' = [eResp EXCEPT ![r] = Append(@, [status |-> 500])]
       \/ \E t \in OcrTexts :
            LET parsed == parseCardText(orEmpty(t))
            IN  eResp' = [eResp EXCEPT ![r] =
                             Append(@, IF parsed.kind = "throw"
                                       THEN [status |-> 500]
                                       ELSE [status |-> 200, parsed |-> parsed.value])]
    /\ epc' = [epc EXCEPT ![r] = "done"]
    /\ UNCHANGED <<visionClient, keyFile, envB64, nextId, callLog, eHasFile, eCalls, eClient,
                   parseVars, submitVars>>

ExtractNext == \E r \in ExtractReqs : ExtractStart(r) \/ ExtractOcrSettle(r)

-----------------------------------------------------------------------------
(* POST /api/submit-inquiry *)

SubmitReqs == 1..NumSubmit

\* process.env.N8N_WEBHOOK_URL and process.env.N8N_SECRET
EnvValues == {Undefined, Str(<<>>), Str(<<"x">>)}

\* req.body?.payload: absent, or one of these texts
PayloadTexts == {"{\"name\":\"a\"}", "null", "{name"}
Payloads == {Undefined} \cup { [tag |-> "string", json |-> p] : p \in PayloadTexts }

\* JSON.parse of a payload text: it throws, or gives a value of some type
JSONparse(p) ==
    IF p \in {"{}", "{\"name\":\"a\"}"} THEN [threw |-> FALSE, type |-> "object"]
    ELSE IF p = "null" THEN [threw |-> FALSE, type |-> "null"]
    ELSE [threw |-> TRUE]

\* req.body?.payload || "{}"
payloadRaw(v) == IF v.tag = "undefined" \/ v.json = "" THEN "{}" ELSE v.json

\* the status codes the webhook may answer with
Statuses == {200, 204, 404}

\* n8nRes.ok
ResOk(status) == status >= 200 /\ status < 300

NoFetch == [state |-> "none"]

SubmitIdle ==
    /\ envUrl = Undefined
    /\ envSecret = Undefined
    /\ spc = [r \in SubmitReqs |-> "new"]
    /\ sPayload = [r \in SubmitReqs |-> Undefined]
    /\ sFetch = [r \in SubmitReqs |-> NoFetch]
    /\ sCalls = [r \in SubmitReqs |-> 0]
    /\ sResp = [r \in SubmitReqs |-> <<>>]

SubmitInit ==
    /\ envUrl \in EnvValues
    /\ envSecret \in EnvValues
    /\ spc = [r \in SubmitReqs |-> "new"]
    /\ sPayload \in [SubmitReqs -> Payloads]
    /\ sFetch = [r \in SubmitReqs |-> NoFetch]
    /\ sCalls = [r \in SubmitReqs |-> 0]
    /\ sResp = [r \in SubmitReqs |-> <<>>]

\* res.status(500).json({ error })
Respond500(r) ==
    /\ sResp' = [sResp EXCEPT ![r] = Append(@, [status |-> 500, ok |-> FALSE])]
    /\ spc' = [spc EXCEPT ![r] = "done"]

\* await fetch(N8N_WEBHOOK_URL, ...)
CallWebhook(r) ==
    /\ sCalls' = [sCalls EXCEPT ![r] = @ + 1]
    /\ sFetch' = [sFetch EXCEPT ![r] = [state |-> "pending"]]
    /\ spc' = [spc EXCEPT ![r] = "awaitFetch"]
    /\ UNCHANGED sResp

\* the handler without the test of N8N_SECRET
SubmitStartNoSecretTest(r) ==
    /\ spc[r] = "new"
    /\ IF Falsy(envUrl)
       THEN Respond500(r) /\ UNCHANGED <<sFetch, sCalls>>
       ELSE LET payload == JSONparse(payloadRaw(sPayload[r]))
            IN  IF payload.threw \/ payload.type = "null"
                THEN Respond500(r) /\ UNCHANGED <<sFetch, sCalls>>
                ELSE CallWebhook(r)
    /\ UNCHANGED <<envUrl, envSecret, sPayload, parseVars, extractVars>>

\* the handler up to its first await
SubmitStart(r) ==
    /\ spc[r] = "new"
    /\ IF Falsy(envUrl)
       THEN Respond500(r) /\ UNCHANGED <<sFetch, sCalls>>
       ELSE IF Falsy(envSecret)
       THEN Respond500(r) /\ UNCHANGED <<sFetch, sCalls>>
       ELSE LET payload == JSONparse(payloadRaw(sPayload[r]))
            IN  \* JSON.parse throws, or payload.submittedAt of null throws
                IF payload.threw \/ payload.type = "null"
                THEN Respond500(r) /\ UNCHANGED <<sFetch, sCalls>>
                ELSE CallWebhook(r)
    /\ UNCHANGED <<envUrl, envSecret, sPayload, parseVars, extractVars>>

\* the fetch settles; on a reply the handler goes on to await n8nRes.text()
SubmitFetchSettle(r) ==
    /\ spc[r] = "awaitFetch"
    /\ \/ /\ sFetch' = [sFetch EXCEPT ![r] = [state |-> "rejected"]]
          /\ Respond500(r)
       \/ \E st \in Statuses :
          /\ sFetch' = [sFetch EXCEPT ![r] = [state |-> "replied", status |-> st]]
          /\ spc' = [spc EXCEPT ![r] = "awaitText"]
          /\ UNCHANGED sResp
    /\ UNCHANGED <<envUrl, envSecret, sPayload, sCalls, parseVars, extractVars>>

\* n8nRes.text() settles: the rest of the handler
SubmitTextSettle(r) ==
    /\ spc[r] = "awaitText"
    /\ \/ /\ sFetch' = [sFetch EXCEPT ![r] = [state |-> "bodyFailed", status |-> @.status]]
          /\ Respond500(r)
       \/ /\ IF ~ResOk(sFetch[r].status)
             THEN Respond500(r)
             ELSE /\ sResp' = [sResp EXCEPT ![r] = Append(@, [status |-> 200, ok |-> TRUE])]
                  /\ spc' = [spc EXCEPT ![r] = "done"]
          /\ UNCHANGED sFetch
    /\ UNCHANGED <<envUrl, envSecret, sPayload, sCalls, parseVars, extractVars>>

SubmitNext ==
    \E r \in SubmitReqs : SubmitStart(r) \/ SubmitFetchSettle(r) \/ SubmitTextSettle(r)

-----------------------------------------------------------------------------
(* Specifications *)

ParseStart   == ParseInit /\ ExtractIdle /\ SubmitIdle
ExtractBegin == ParseIdle /\ ExtractInit /\ SubmitIdle
SubmitBegin  == ParseIdle /\ ExtractIdle /\ SubmitInit

\* calls of parseCardText on bounded card texts
ParseSpec == ParseStart /\ [][ParseNext]_vars

\* requests to /api/extract-business-card
ExtractSpec == ExtractBegin /\ [][ExtractNext]_vars

\* requests to /api/submit-inquiry
SubmitSpec == SubmitBegin /\ [][SubmitNext]_vars

-----------------------------------------------------------------------------
(* Vocabulary of the properties of parseCardText *)

\* the call has returned a record
Returned == ppc = "done" /\ result.kind = "return"

\* RawText: the trimmed non-empty lines of the input, none for absent input
RawText == IF text.tag = "string" THEN lines(text.chars) ELSE <<>>

\* the first line of ls, in order, that has property P; empty when none has
FirstLine(ls, P(_)) ==
    LET m == {i \in 1..Len(ls) : P(ls[i])}
    IN  IF m = {} THEN <<>> ELSE ls[CHOOSE i \in m : \A j \in m : i <= j]

\* l contains the lower-case term, letter case ignored
ContainsCI(l, term) == includes(toLowerCase(l), term)

\* l starts with the lower-case term, letter case ignored
StartsWithCI(l, term) ==
    Len(l) >= Len(term) /\ toLowerCase(SubSeq(l, 1, Len(term))) = term

HasRoleTitle(l) ==
    \E t \in 1..Len(COMPANY_BLACKLIST) : ContainsCI(l, COMPANY_BLACKLIST[t])

HasAddressIndicator(l) ==
    \E t \in 1..Len(AddressTerms) : ContainsCI(l, AddressTerms[t])

\* a line that may be the name line
NameCandidate(l) ==
    ~EmailRe(l) /\ ~WebsiteRe(l) /\ ~PhoneRe(l) /\ ~HasRoleTitle(l)

\* the name line: the first candidate in original order, empty when none
NameLine == FirstLine(RawText, NameCandidate)

\* the candidates in original order
NameCandidates == SelectSeq(RawText, NameCandidate)

\* the places where a white-space-separated token of l starts
TokenStarts(l) ==
    {i \in 1..Len(l) : l[i] \notin WhiteSpace /\ (i = 1 \/ l[i - 1] \in WhiteSpace)}

\* the token of l that starts at i
TokenAt(l, i) ==
    SubSeq(l, i, CHOOSE e \in i..Len(l) :
                     /\ \A k \in i..e : l[k] \notin WhiteSpace
                     /\ (e = Len(l) \/ l[e + 1] \in WhiteSpace))

\* the tokens of l that start in the set st, joined by single spaces
RECURSIVE JoinedTokens(_, _)
JoinedTokens(l, st) ==
    IF st = {} THEN <<>>
    ELSE LET i == CHOOSE i \in st : \A j \in st : i <= j
         IN  IF st = {i} THEN TokenAt(l, i)
             ELSE TokenAt(l, i) \o <<" ">> \o JoinedTokens(l, st \ {i})

FirstTokenStart(l) == CHOOSE i \in TokenStarts(l) : \A j \in TokenStarts(l) : i <= j

\* a line that may be the company, given the first name
CompanyCandidate(l, fn) ==
    /\ ~(fn # <<>> /\ includes(l, fn))
    /\ ~EmailRe(l) /\ ~WebsiteRe(l) /\ ~PhoneRe(l)
    /\ ~HasRoleTitle(l)
    /\ ~HasAddressIndicator(l)

\* "www." anywhere, or "http://" or "https://" at the start
WebsiteShapeAnchored(l) ==
    \/ ContainsCI(l, WWW)
    \/ StartsWithCI(l, HTTP)
    \/ StartsWithCI(l, HTTPS)

\* "www.", "http://" or "https://" anywhere
WebsiteShapeAnywhere(l) ==
    \/ ContainsCI(l, WWW)
    \/ ContainsCI(l, HTTP)
    \/ ContainsCI(l, HTTPS)

-----------------------------------------------------------------------------
(* Properties of parseCardText *)

\* C1: for the empty string and for absent input parseCardText returns a
\* record that has all six fields, each the empty string.
C1_EmptyInputGivesSixEmptyFields ==
    (ppc = "done" /\ Falsy(text)) =>
        /\ result.kind = "return"
        /\ \A f \in Fields : f \in DOMAIN result.value /\ result.value[f] = <<>>

\* C2 as stated: for the card "Jane Doe / CEO / Beispiel GmbH /
\* Musterstraße 1, Berlin" firstName is "Jane", lastName is "Doe", company
\* is empty, and "CEO" is neither the name nor the company.
C2_JaneCardCompanyEmpty ==
    (ppc = "done" /\ text = Str(JaneCard)) =>
        /\ result.kind = "return"
        /\ result.value.firstName = <<"J", "a", "n", "e">>
        /\ result.value.lastName = <<"D", "o", "e">>
        /\ result.value.company = <<>>
        /\ CEO \notin {result.value.firstName, result.value.lastName, result.value.company}

\* C2 amended: for that card firstName is "Jane", lastName is "Doe" and
\* company is "Beispiel GmbH"; "CEO" is neither the name nor the company.
C2_JaneCardCompanyBeispiel ==
    (ppc = "done" /\ text = Str(JaneCard)) =>
        /\ result.kind = "return"
        /\ result.value.firstName = <<"J", "a", "n", "e">>
        /\ result.value.lastName = <<"D", "o", "e">>
        /\ result.value.company = Beispiel
        /\ CEO \notin {result.value.firstName, result.value.lastName, result.value.company}

C2_Witness == Returned /\ text = Str(JaneCard)

\* C3 as stated: when the name line is a single token, firstName is that
\* token and lastName is empty, whatever lines follow it.
C3_SingleTokenLastNameEmpty ==
    (Returned /\ ~Falsy(text) /\ Cardinality(TokenStarts(NameLine)) = 1) =>
        /\ result.value.firstName = NameLine
        /\ result.value.lastName = <<>>

\* C3 amended: when the name line is a single token, firstName is that token
\* and lastName is the whole second name candidate line, empty only when
\* there is no second candidate.
C3_SingleTokenLastNameSecondLine ==
    (Returned /\ ~Falsy(text) /\ Cardinality(TokenStarts(NameLine)) = 1) =>
        /\ result.value.firstName = NameLine
        /\ result.value.lastName =
              (IF Len(NameCandidates) >= 2 THEN NameCandidates[2] ELSE <<>>)

C3_Witness ==
    /\ Returned /\ ~Falsy(text)
    /\ Cardinality(TokenStarts(NameLine)) = 1
    /\ Len(NameCandidates) >= 2
    /\ result.value.lastName # <<>>

\* C4: the company is the first line of RawText that does not contain a
\* non-empty firstName, matches none of the email, website and phone
\* patterns, and has no role-title and no address-indicator term; it is the
\* empty string when there is no such line.
C4_CompanyIsFirstCandidate ==
    (ppc = "done") =>
        /\ result.kind = "return"
        /\ "company" \in DOMAIN result.value
        /\ result.value.company =
              FirstLine(RawText, LAMBDA l : CompanyCandidate(l, result.value.firstName))

\* The same selection on inputs that reach the scans (a non-empty string).
CompanyIsFirstCandidateOfText ==
    (Returned /\ ~Falsy(text)) =>
        result.value.company =
            FirstLine(RawText, LAMBDA l : CompanyCandidate(l, result.value.firstName))

\* C5: the name line is the first line that matches none of the email,
\* website and phone patterns and has no role-title term; when it has two or
\* more tokens, firstName is its first token and lastName the remaining
\* tokens joined by single spaces.
C5_NameFromFirstCandidate ==
    (ppc = "done" /\ Cardinality(TokenStarts(NameLine)) >= 2) =>
        /\ result.kind = "return"
        /\ Fields \subseteq DOMAIN result.value
        /\ result.value.firstName = TokenAt(NameLine, FirstTokenStart(NameLine))
        /\ result.value.lastName =
              JoinedTokens(NameLine, TokenStarts(NameLine) \ {FirstTokenStart(NameLine)})

C5_Witness ==
    /\ Returned
    /\ Cardinality(TokenStarts(NameLine)) >= 3
    /\ RawText[1] # NameLine

\* C6 as stated: the website is the first line that contains "www." or
\* starts with "http://" or "https://"; a line with the scheme only after
\* its first character and without "www." is not selected.
C6_WebsiteSchemeAtStart ==
    (Returned /\ ~Falsy(text)) =>
        /\ (\E i \in 1..Len(RawText) : WebsiteShapeAnchored(RawText[i])) =>
              result.value.website = FirstLine(RawText, WebsiteShapeAnchored)
        /\ result.value.website # <<>> => WebsiteShapeAnchored(result.value.website)

\* C6 amended: the website is the first line that contains "www.",
\* "http://" or "https://" anywhere in it, and no other line is selected.
C6_WebsiteSchemeAnywhere ==
    (Returned /\ ~Falsy(text)) =>
        /\ (\E i \in 1..Len(RawText) : WebsiteShapeAnywhere(RawText[i])) =>
              result.value.website = FirstLine(RawText, WebsiteShapeAnywhere)
        /\ result.value.website # <<>> => WebsiteShapeAnywhere(result.value.website)

C6_Witness ==
    /\ Returned /\ ~Falsy(text)
    /\ result.value.website = WebLine
    /\ ~WebsiteShapeAnchored(WebLine)

\* C7: email, phone and website are each the first match of a scan over all
\* of RawText, whatever the other two selected, and each is the empty string
\* exactly when no line has its shape.
C7_IndependentScans ==
    (ppc = "done") =>
        /\ result.kind = "return"
        /\ {"email", "phone", "website"} \subseteq DOMAIN result.value
        /\ result.value.email = FirstLine(RawText, EmailRe)
        /\ result.value.phone = FirstLine(RawText, PhoneRe)
        /\ result.value.website = FirstLine(RawText, WebsiteRe)
        /\ (result.value.email = <<>>) <=> ~(\E i \in 1..Len(RawText) : EmailRe(RawText[i]))
        /\ (result.value.phone = <<>>) <=> ~(\E i \in 1..Len(RawText) : PhoneRe(RawText[i]))
        /\ (result.value.website = <<>>) <=> ~(\E i \in 1..Len(RawText) : WebsiteRe(RawText[i]))

\* The same scans on inputs that reach them (a non-empty string).
IndependentScansOfText ==
    (Returned /\ ~Falsy(text)) =>
        /\ result.value.email = FirstLine(RawText, EmailRe)
        /\ result.value.phone = FirstLine(RawText, PhoneRe)
        /\ result.value.website = FirstLine(RawText, WebsiteRe)
        /\ (result.value.email = <<>>) <=> ~(\E i \in 1..Len(RawText) : EmailRe(RawText[i]))
        /\ (result.value.phone = <<>>) <=> ~(\E i \in 1..Len(RawText) : PhoneRe(RawText[i]))
        /\ (result.value.website = <<>>) <=> ~(\E i \in 1..Len(RawText) : WebsiteRe(RawText[i]))

\* one line returned in all three fields
OneLineInThreeFields ==
    /\ Returned /\ ~Falsy(text)
    /\ result.value.email = AllThree
    /\ result.value.phone = AllThree
    /\ result.value.website = AllThree

\* C8: parseCardText never throws and always returns a value, for every
\* string and for absent input.
C8_NeverThrows == ppc = "done" => result.kind = "return"

C8_Witness ==
    /\ ppc = "done"
    /\ text.tag \in {"undefined", "null"}
    /\ result.kind = "return"

-----------------------------------------------------------------------------
(* Properties of POST /api/submit-inquiry *)

\* the payload field is present and is not valid JSON
InvalidJSON(v) == v.tag = "string" /\ JSONparse(v.json).threw

\* the webhook call failed, or the webhook answered outside 200..299
WebhookFailed(r) ==
    \/ sFetch[r].state \in {"rejected", "bodyFailed"}
    \/ sFetch[r].state = "replied" /\ ~(sFetch[r].status \in 200..299)

-----------------------------------------------------------------------------
(* Properties of getVisionClient *)

\* the clients that were ever stored in visionClient
EverStored == {callLog[i].after : i \in 1..Len(callLog)} \ {NoClient}

\* C10: at most one client is ever constructed and stored; once one is
\* stored every later call returns it and constructs nothing; a call that
\* throws leaves the cache empty and the next call constructs again; a
\* request without a file is answered 400 without a call of getVisionClient.
C10_OneCachedClient ==
    /\ Cardinality(EverStored) <= 1
    /\ Cardinality({i \in 1..Len(callLog) : callLog[i].built}) <= 1
    /\ visionClient = (IF callLog = <<>> THEN NoClient ELSE callLog[Len(callLog)].after)
    /\ \A i \in 1..Len(callLog) :
          LET c == callLog[i]
          IN  /\ c.before = (IF i = 1 THEN NoClient ELSE callLog[i - 1].after)
              /\ c.before # NoClient =>
                    ~c.threw /\ ~c.built /\ c.ret = c.before /\ c.after = c.before
              /\ c.threw => c.after = NoClient
              /\ (c.before = NoClient /\ ~c.threw) =>
                    c.built /\ c.ret # NoClient /\ c.after = c.ret
    /\ \A r \in ExtractReqs :
          /\ (epc[r] = "done" /\ ~eHasFile[r]) =>
                eResp[r] = <<[status |-> 400]>> /\ eCalls[r] = 0
          /\ (epc[r] = "awaitOCR") => eClient[r] = visionClient /\ eClient[r] # NoClient

C10_Witness ==
    /\ \E i, j, k \in 1..Len(callLog) :
          /\ i < j /\ j < k
          /\ callLog[i].threw
          /\ callLog[j].built
          /\ callLog[k].before # NoClient /\ callLog[k].ret = callLog[j].ret
    /\ \E r \in ExtractReqs :
          epc[r] = "done" /\ ~eHasFile[r] /\ eResp[r] = <<[status |-> 400]>>

====
